---------------------------- MODULE Spec2Model ----------------------------
(***************************************************************************)
(* State-machine model of the stock scanner: the parquet store, the        *)
(* scanner engine (src/scanner/engine.py), the filter classes              *)
(* (src/scanner/filters/*.py) and the calls the command line and the tests *)
(* make on them.                                                           *)
(*                                                                         *)
(* Units.  Prices are integers in cents, volumes in thousands of shares,   *)
(* dates are day numbers.  A computed column value is null, a rational     *)
(* n/d (d > 0), +infinity or NaN; comparisons cross-multiply, so a rolling *)
(* mean is compared exactly.  The daily range percentage of the ADR        *)
(* column is a fixed-point value in hundredths of a percent.               *)
(***************************************************************************)
EXTENDS Integers, Sequences, FiniteSets, TLC

VARIABLES store,    \* data_dir: symbol (file stem) -> rows of its parquet file
          dirOk,    \* whether data_dir can be read and written
          call,     \* the last call made on the engine or on a filter object
          outcome,  \* "none" | "ok" | "raised" : how that call ended
          result,   \* the rows that call returned (a set: group order is unspecified)
          job       \* the sync command in progress and its units of work

vars == <<store, dirOk, call, outcome, result, job>>

-----------------------------------------------------------------------------
(* Bounds of the model *)

\* Rows a generated series may have beyond a rolling window.
MaxSlack == 1
\* Most criteria one scan(...) call of the model sets.
MaxActive == 2
\* A window period short enough for the two-bar fixtures.
ShortPeriod == 2
\* Most symbols one sync command of the model runs over.
MaxTickers == 2
\* Most options a scan command line and its recipe name between them.
MaxNamed == 2
\* Most bars of a history that is resampled for a chart.
MaxBars == 3

-----------------------------------------------------------------------------
(* Program constants *)

SMA_FAST == 50
SMA_MID == 150
SMA_SLOW == 200
EXTREMA_PERIOD == 252
SMA_SLOW_SHIFT == 20
DEFAULT_PERIOD == 20
TEST_SERIES_LEN == 280
VOLUME_THRESHOLD == 150000000
LOOKBACK_DAYS == 60
MAX_WORKERS == 32

-----------------------------------------------------------------------------
(* Column values *)

Null == [k |-> "null", n |-> 0, d |-> 1]
NaN == [k |-> "nan", n |-> 0, d |-> 1]
Inf == [k |-> "inf", n |-> 0, d |-> 1]
Num(n, d) == [k |-> "num", n |-> n, d |-> d]
Lit(n) == Num(n, 1)

IsNull(a) == a.k = "null"

\* Float multiplication and division of polars expressions; null propagates.
Mul(a, b) ==
    IF IsNull(a) \/ IsNull(b) THEN Null
    ELSE IF a.k = "nan" \/ b.k = "nan" THEN NaN
    ELSE IF a.k = "inf" \/ b.k = "inf" THEN Inf
    ELSE Num(a.n * b.n, a.d * b.d)

Div(a, b) ==
    IF IsNull(a) \/ IsNull(b) THEN Null
    ELSE IF a.k = "nan" \/ b.k = "nan" THEN NaN
    ELSE IF b.k = "inf" THEN IF a.k = "inf" THEN NaN ELSE Lit(0)
    ELSE IF a.k = "inf" THEN Inf
    ELSE IF b.n = 0 THEN IF a.n = 0 THEN NaN ELSE Inf
    ELSE Num(a.n * b.d, a.d * b.n)

Add(a, b) ==
    IF IsNull(a) \/ IsNull(b) THEN Null
    ELSE IF a.k = "nan" \/ b.k = "nan" THEN NaN
    ELSE IF a.k = "inf" \/ b.k = "inf" THEN Inf
    ELSE Num(a.n * b.d + b.n * a.d, a.d * b.d)

\* Total order of polars float comparisons on non-null values: NaN is the
\* largest value and equal to itself.
Rank(a) == CASE a.k = "num" -> 0 [] a.k = "inf" -> 1 [] OTHER -> 2

Cmp(a, b) ==
    IF Rank(a) # Rank(b) THEN (IF Rank(a) < Rank(b) THEN -1 ELSE 1)
    ELSE IF a.k # "num" THEN 0
    ELSE IF a.n * b.d < b.n * a.d THEN -1
    ELSE IF a.n * b.d > b.n * a.d THEN 1
    ELSE 0

\* Three-valued comparison results: "T", "F", or "N" when an operand is null.
Gt(a, b) == IF IsNull(a) \/ IsNull(b) THEN "N" ELSE IF Cmp(a, b) > 0 THEN "T" ELSE "F"

\* A comparison that lets a null through (a faulty Ge).
Ge_nullpass(a, b) == IF IsNull(a) \/ IsNull(b) THEN "T" ELSE IF Cmp(a, b) >= 0 THEN "T" ELSE "F"

Ge(a, b) == IF IsNull(a) \/ IsNull(b) THEN "N" ELSE IF Cmp(a, b) >= 0 THEN "T" ELSE "F"

\* Kleene conjunction (the & of two boolean expressions).
And3(x, y) ==
    IF x = "F" \/ y = "F" THEN "F"
    ELSE IF x = "N" \/ y = "N" THEN "N"
    ELSE "T"

-----------------------------------------------------------------------------
(* Bars, series and the inputs the model draws *)

Bar(date, open, high, low, close, volume) ==
    [date |-> date, open |-> open, high |-> high, low |-> low,
     close |-> close, volume |-> volume]

\* Bars of the tests' two-bar fixtures: the first bar of each, the bar that
\* gaps up (open 11.60 over a high of 11.00), the bar that does not (open
\* 11.20); and a bar at the thresholds: open exactly 5% above 11.00, close
\* exactly 11.50, volume exactly three times the first bar's.
FirstBar(date) == Bar(date, 1000, 1100, 950, 1050, 1000)
GapBar(date) == Bar(date, 1160, 1220, 1120, 1200, 1800)
NoGapBar(date) == Bar(date, 1120, 1160, 1080, 1110, 1800)
EdgeBar(date) == Bar(date, 1155, 1160, 1100, 1150, 3000)
QuietBar(date) == Bar(date, 1000, 1000, 1000, 1000, 0)

Reverse(s) == [i \in 1..Len(s) |-> s[Len(s) + 1 - i]]

\* One bar; two bars on consecutive days or with a day missing; two bars
\* stored latest first.
ShortSeries ==
    { <<GapBar(1)>>,
      <<FirstBar(1), GapBar(2)>>,
      <<FirstBar(1), NoGapBar(3)>>,
      <<FirstBar(1), EdgeBar(2)>>,
      Reverse(<<FirstBar(1), GapBar(2)>>) }

\* The rising series of the trend-template test: close rises 0.80 a day from
\* 50.00, volume is constant and doubles on the last day.
TrendRows(n) ==
    [i \in 1..n |->
        LET c == 5000 + 80 * (i - 1)
        IN Bar(i, c - 50, c + 100, c - 100, c, IF i < n THEN 1000 ELSE 2000)]

\* The flat series of the same test: constant close and volume.
FlatRows(n) == [i \in 1..n |-> Bar(i, 10000, 10050, 9950, 10000, 1000)]

\* A series that never traded: every volume is 0.
QuietRows(n) == [i \in 1..n |-> QuietBar(i)]

\* Lengths on both sides of the rolling windows, and the test's length.
LongLens ==
    (DEFAULT_PERIOD - 1)..(DEFAULT_PERIOD + MaxSlack)
    \cup {EXTREMA_PERIOD - 1, EXTREMA_PERIOD, TEST_SERIES_LEN}

LongSeries ==
    { TrendRows(n) : n \in LongLens }
    \cup { FlatRows(n) : n \in {DEFAULT_PERIOD, TEST_SERIES_LEN} }
    \cup { QuietRows(DEFAULT_PERIOD) }

SeriesInputs == ShortSeries \cup LongSeries

\* Symbols as callers give them, and the file stems they are stored under.
SymbolInputs == {"AAA", "BBB", "aaa"}

Upper(symbol) == IF symbol = "aaa" THEN "AAA" ELSE symbol

\* Lexicographic order of the file stems (the sort key "symbol").
SymbolOrder == <<"AAA", "BBB">>

Symbols == { SymbolOrder[i] : i \in 1..Len(SymbolOrder) }

-----------------------------------------------------------------------------
(* ParquetStore *)

get_file_path(symbol) == Upper(symbol)

\* A save that keeps the rows the file already has and adds the new ones
\* after them (a faulty StoreAfterSave).
StoreAfterSave_appends(st, symbol, df) ==
    [s \in DOMAIN st \cup {get_file_path(symbol)} |->
        IF s # get_file_path(symbol) THEN st[s]
        ELSE IF s \in DOMAIN st THEN st[s] \o df ELSE df]

\* save_ticker_data: write_parquet overwrites the symbol's file.
StoreAfterSave(st, symbol, df) ==
    [s \in DOMAIN st \cup {get_file_path(symbol)} |->
        IF s = get_file_path(symbol) THEN df ELSE st[s]]

\* exists: the symbol's file is there.
exists(st, symbol) == get_file_path(symbol) \in DOMAIN st

\* A lookup of the symbol as given, not of the file name save derives from
\* it (a faulty load_ticker_data_found).
load_ticker_data_found_exact(st, symbol) == symbol \in DOMAIN st

\* load_ticker_data: whether the file is found (FileNotFoundError if not)
load_ticker_data_found(st, symbol) == get_file_path(symbol) \in DOMAIN st

\* load_ticker_data: the series read from the symbol's file.
load_ticker_data(st, symbol) == st[get_file_path(symbol)]

-----------------------------------------------------------------------------
(* The flat frame the engine scans *)

TagRows(symbol, rows) ==
    [i \in 1..Len(rows) |->
        [symbol |-> symbol, date |-> rows[i].date, open |-> rows[i].open,
         high |-> rows[i].high, low |-> rows[i].low, close |-> rows[i].close,
         volume |-> rows[i].volume]]

\* The files of the store in the order the glob lists them (by name).
GlobOrder(st) == SelectSeq(SymbolOrder, LAMBDA x : x \in DOMAIN st)

RECURSIVE ConcatFiles(_, _)
ConcatFiles(st, order) ==
    IF order = <<>> THEN <<>>
    ELSE TagRows(Head(order), st[Head(order)]) \o ConcatFiles(st, Tail(order))

\* scan_parquet over data_dir/*.parquet with the symbol column taken from
\* the file path: the files' rows, one file after the other.
ScanParquet(st) == ConcatFiles(st, GlobOrder(st))

\* Stable merge of two date-sorted runs (ties keep a's rows first).
MergeByDate(a, b) ==
    IF a = <<>> THEN b
    ELSE IF b = <<>> THEN a
    ELSE IF a[Len(a)].date <= b[1].date THEN a \o b
    ELSE LET posA(i) == i + Cardinality({ j \in 1..Len(b) : b[j].date < a[i].date })
             posB(j) == j + Cardinality({ i \in 1..Len(a) : a[i].date <= b[j].date })
         IN [k \in 1..(Len(a) + Len(b)) |->
                IF \E i \in 1..Len(a) : posA(i) = k
                THEN a[CHOOSE i \in 1..Len(a) : posA(i) = k]
                ELSE b[CHOOSE j \in 1..Len(b) : posB(j) = k]]

\* A stable sort leaves rows that are in order as they are.
RECURSIVE SortByDate(_)
SortByDate(rows) ==
    IF \A i \in 1..(Len(rows) - 1) : rows[i].date <= rows[i + 1].date THEN rows
    ELSE LET m == Len(rows) \div 2
         IN MergeByDate(SortByDate(SubSeq(rows, 1, m)),
                        SortByDate(SubSeq(rows, m + 1, Len(rows))))

RECURSIVE SortBuckets(_, _)
SortBuckets(frame, k) ==
    IF k > Len(SymbolOrder) THEN <<>>
    ELSE SortByDate(SelectSeq(frame, LAMBDA r : r.symbol = SymbolOrder[k]))
         \o SortBuckets(frame, k + 1)

\* The frame left as scanned (a faulty SortFrame).
SortFrame_unsorted(frame) == frame

\* lf.sort(["symbol", "date"]): rows by symbol, and by date within a symbol.
\* (Rows that agree on both keys keep no guaranteed order; the series the
\* model stores have distinct dates.)
SortFrame(frame) == SortBuckets(frame, 1)

-----------------------------------------------------------------------------
(* Window expressions: rolling_*(period), shift(n), each .over("symbol") *)

ColName(base, period) == <<base, period>>

Expr(name, fn, col, period, shift) ==
    [name |-> name, fn |-> fn, col |-> col, period |-> period, shift |-> shift]

\* The value of an input column, or of the per-row daily range percentage
\* (high - low) / low * 100, on one row.
ColValue(row, col) ==
    IF col = "daily_range_pct" THEN ((row.high - row.low) * 10000) \div row.low
    ELSE row[col]

RECURSIVE SumRange(_, _, _, _)
SumRange(rows, col, lo, hi) ==
    IF lo > hi THEN 0
    ELSE IF lo = hi THEN ColValue(rows[lo], col)
    ELSE LET m == (lo + hi) \div 2
         IN SumRange(rows, col, lo, m) + SumRange(rows, col, m + 1, hi)

Greatest(S) == CHOOSE x \in S : \A y \in S : y <= x

Least(S) == CHOOSE x \in S : \A y \in S : x <= y

RECURSIVE MaxRange(_, _, _, _)
MaxRange(rows, col, lo, hi) ==
    IF lo = hi THEN ColValue(rows[lo], col)
    ELSE Greatest({ MaxRange(rows, col, lo, (lo + hi) \div 2),
                    MaxRange(rows, col, (lo + hi) \div 2 + 1, hi) })

RECURSIVE MinRange(_, _, _, _)
MinRange(rows, col, lo, hi) ==
    IF lo = hi THEN ColValue(rows[lo], col)
    ELSE Least({ MinRange(rows, col, lo, (lo + hi) \div 2),
                 MinRange(rows, col, (lo + hi) \div 2 + 1, hi) })

\* rolling_mean / rolling_max / rolling_min with window_size = period and the
\* default min_samples = period: null until `period` rows exist.
RollingMean(rows, col, period, p) ==
    IF p < period THEN Null ELSE Num(SumRange(rows, col, p - period + 1, p), period)

\* A maximum over as many rows as there are (min_samples = 1; a faulty
\* RollingMax).
RollingMax_partial(rows, col, period, p) ==
    Lit(MaxRange(rows, col, IF p < period THEN 1 ELSE p - period + 1, p))

RollingMax(rows, col, period, p) ==
    IF p < period THEN Null ELSE Lit(MaxRange(rows, col, p - period + 1, p))

RollingMin(rows, col, period, p) ==
    IF p < period THEN Null ELSE Lit(MinRange(rows, col, p - period + 1, p))

\* The whole frame as one group (a faulty Over).
Over_unpartitioned(frame, i) == [rows |-> frame, pos |-> i]

\* The group .over("symbol") evaluates row i in: the rows of i's symbol in
\* frame order, and the position of row i among them.
Over(frame, i) ==
    [rows |-> SelectSeq(frame, LAMBDA r : r.symbol = frame[i].symbol),
     pos |-> Cardinality({ j \in 1..i : frame[j].symbol = frame[i].symbol })]

\* An expression at position p of its group.
EvalAt(e, rows, p) ==
    CASE e.fn = "col" -> Lit(ColValue(rows[p], e.col))
      [] e.fn = "rolling_mean" -> RollingMean(rows, e.col, e.period, p)
      [] e.fn = "rolling_max" -> RollingMax(rows, e.col, e.period, p)
      [] e.fn = "rolling_min" -> RollingMin(rows, e.col, e.period, p)
      [] e.fn = "rvol" ->
            Div(Lit(ColValue(rows[p], e.col)), RollingMean(rows, e.col, e.period, p))

\* An expression in the group o of a row; shift(n) reads n rows back within
\* the group and is null on the group's first n rows.
EvalExpr(e, o) ==
    IF o.pos - e.shift < 1 THEN Null ELSE EvalAt(e, o.rows, o.pos - e.shift)

\* lf.with_columns(exprs), on row i: the row with the computed columns.
WithColumnsAt(frame, exprs, i) ==
    LET o == Over(frame, i)
    IN [symbol |-> frame[i].symbol, date |-> frame[i].date, open |-> frame[i].open,
        high |-> frame[i].high, low |-> frame[i].low, close |-> frame[i].close,
        volume |-> frame[i].volume,
        cols |-> [nm \in { e.name : e \in exprs } |->
                    EvalExpr(CHOOSE e \in exprs : e.name = nm, o)]]

\* The row group_by("symbol").last() keeps for a symbol: its last in frame order.
LastIndex(frame, symbol) ==
    CHOOSE i \in 1..Len(frame) :
        /\ frame[i].symbol = symbol
        /\ \A j \in (i + 1)..Len(frame) : frame[j].symbol # symbol

\* lf.with_columns(exprs).group_by("symbol").last()
GroupByLast(frame, exprs) ==
    { WithColumnsAt(frame, exprs, LastIndex(frame, s))
        : s \in { frame[i].symbol : i \in 1..Len(frame) } }

\* pl.col(name) on a row of the reduced frame: an input column, or a column
\* with_columns computed.
Col(row, name) == Lit(row[name])

Ind(row, name) == row.cols[name]

\* lf.filter(predicate): the rows on which the predicate is true (not false, not null).
FilterKeeps(v) == v = "T"

-----------------------------------------------------------------------------
(* The filter classes: src/scanner/filters *)

Filter(type, value, period) == [type |-> type, value |-> value, period |-> period]

MinPriceFilter(min_price) == Filter("MinPrice", min_price, 0)
MinVolumeFilter(min_volume) == Filter("MinVolume", min_volume, 0)
MinRVolFilter(min_rvol, period) == Filter("MinRVol", min_rvol, period)
MinAdrFilter(min_adr, period) == Filter("MinAdr", min_adr, period)
GapUpFilter(threshold_pct) == Filter("GapUp", threshold_pct, 0)
TrendTemplateFilter == Filter("TrendTemplate", Lit(0), 0)

MinRVol_required_indicators(f) ==
    { Expr(ColName("avg_volume", f.period), "rolling_mean", "volume", f.period, 0),
      Expr(ColName("rvol", f.period), "rvol", "volume", f.period, 0) }

MinAdr_required_indicators(f) ==
    { Expr(ColName("adr", f.period), "rolling_mean", "daily_range_pct", f.period, 0) }

GapUp_required_indicators ==
    { Expr(ColName("prev_high", 0), "col", "high", 0, 1) }

\* The slow average read on the latest bar itself (a faulty
\* TrendTemplate_required_indicators: the shift left out).
TrendTemplate_required_indicators_unshifted ==
    { Expr(ColName("sma", SMA_FAST), "rolling_mean", "close", SMA_FAST, 0),
      Expr(ColName("sma", SMA_MID), "rolling_mean", "close", SMA_MID, 0),
      Expr(ColName("sma", SMA_SLOW), "rolling_mean", "close", SMA_SLOW, 0),
      Expr(ColName("low", EXTREMA_PERIOD), "rolling_min", "low", EXTREMA_PERIOD, 0),
      Expr(ColName("high", EXTREMA_PERIOD), "rolling_max", "high", EXTREMA_PERIOD, 0),
      Expr(ColName("sma_200_1m_ago", 0), "rolling_mean", "close", SMA_SLOW, 0) }

TrendTemplate_required_indicators ==
    { Expr(ColName("sma", SMA_FAST), "rolling_mean", "close", SMA_FAST, 0),
      Expr(ColName("sma", SMA_MID), "rolling_mean", "close", SMA_MID, 0),
      Expr(ColName("sma", SMA_SLOW), "rolling_mean", "close", SMA_SLOW, 0),
      Expr(ColName("low", EXTREMA_PERIOD), "rolling_min", "low", EXTREMA_PERIOD, 0),
      Expr(ColName("high", EXTREMA_PERIOD), "rolling_max", "high", EXTREMA_PERIOD, 0),
      Expr(ColName("sma_200_1m_ago", 0), "rolling_mean", "close", SMA_SLOW, SMA_SLOW_SHIFT) }

required_indicators(f) ==
    CASE f.type = "MinRVol" -> MinRVol_required_indicators(f)
      [] f.type = "MinAdr" -> MinAdr_required_indicators(f)
      [] f.type = "GapUp" -> GapUp_required_indicators
      [] f.type = "TrendTemplate" -> TrendTemplate_required_indicators
      [] OTHER -> {}

\* A threshold that a close equal to it does not meet (a faulty MinPrice_pred).
MinPrice_pred_exclusive(f, row) == Gt(Col(row, "close"), f.value)

MinPrice_pred(f, row) == Ge(Col(row, "close"), f.value)

MinVolume_pred(f, row) == Ge(Col(row, "volume"), f.value)

\* A threshold that a ratio equal to it does not meet (a faulty MinRVol_pred).
MinRVol_pred_exclusive(f, row) == Gt(Ind(row, ColName("rvol", f.period)), f.value)

MinRVol_pred(f, row) == Ge(Ind(row, ColName("rvol", f.period)), f.value)

MinAdr_pred(f, row) == Ge(Ind(row, ColName("adr", f.period)), f.value)

\* A gap that an open equal to the threshold meets (a faulty GapUp_pred).
GapUp_pred_inclusive(f, row) ==
    Ge(Col(row, "open"),
       Mul(Ind(row, ColName("prev_high", 0)), Add(Lit(1), Div(f.value, Lit(100)))))

\* threshold_factor = 1 + threshold_pct / 100
GapUp_pred(f, row) ==
    Gt(Col(row, "open"),
       Mul(Ind(row, ColName("prev_high", 0)), Add(Lit(1), Div(f.value, Lit(100)))))

\* The six comparisons of the trend template, joined by &.
TrendTemplate_pred(row) ==
    And3(Gt(Col(row, "close"), Ind(row, ColName("sma", SMA_FAST))),
    And3(Gt(Ind(row, ColName("sma", SMA_FAST)), Ind(row, ColName("sma", SMA_MID))),
    And3(Gt(Ind(row, ColName("sma", SMA_MID)), Ind(row, ColName("sma", SMA_SLOW))),
    And3(Gt(Ind(row, ColName("sma", SMA_SLOW)), Ind(row, ColName("sma_200_1m_ago", 0))),
    And3(Gt(Col(row, "close"), Mul(Ind(row, ColName("low", EXTREMA_PERIOD)), Num(125, 100))),
         Gt(Col(row, "close"), Mul(Ind(row, ColName("high", EXTREMA_PERIOD)), Num(75, 100))))))))

\* f.apply(lf): the predicate of lf.filter(...)
apply_pred(f, row) ==
    CASE f.type = "MinPrice" -> MinPrice_pred(f, row)
      [] f.type = "MinVolume" -> MinVolume_pred(f, row)
      [] f.type = "MinRVol" -> MinRVol_pred(f, row)
      [] f.type = "MinAdr" -> MinAdr_pred(f, row)
      [] f.type = "GapUp" -> GapUp_pred(f, row)
      [] f.type = "TrendTemplate" -> TrendTemplate_pred(row)

\* An apply that also keeps one row only, the first in symbol order (a
\* faulty apply: the rows it returns depend on the rows it is given).
apply_head(f, rows) ==
    LET kept == { r \in rows : FilterKeeps(apply_pred(f, r)) }
    IN  { r \in kept :
            \A q \in kept :
                \E i, j \in 1..Len(SymbolOrder) :
                    i <= j /\ SymbolOrder[i] = r.symbol /\ SymbolOrder[j] = q.symbol }

\* f.apply(lf) == lf.filter(predicate): the rows of lf the predicate holds of.
apply(f, rows) == { r \in rows : FilterKeeps(apply_pred(f, r)) }

\* The contract of BaseFilter, for one filter: the engine's frame (sorted by
\* symbol and date) gets the filter's required_indicators by with_columns,
\* and apply filters the latest row of each symbol.
ApplyFilter(st, f) ==
    IF DOMAIN st = {} THEN {}
    ELSE apply(f, GroupByLast(SortFrame(ScanParquet(st)), required_indicators(f)))

\* lf = f.apply(lf) for each filter of the list in turn.
RECURSIVE ApplyAll(_, _)
ApplyAll(filters, rows) ==
    IF filters = <<>> THEN rows
    ELSE ApplyAll(Tail(filters), apply(Head(filters), rows))

\* A scan over a list of filters as the filter contract describes it: the
\* indicators every filter of the list requires are added to the sorted
\* frame, the latest row of each symbol is taken, and the filters are
\* applied one after the other in list order.
ApplyFilters(st, filters) ==
    IF DOMAIN st = {} THEN {}
    ELSE ApplyAll(filters,
                  GroupByLast(SortFrame(ScanParquet(st)),
                              UNION { required_indicators(filters[i]) : i \in 1..Len(filters) }))

-----------------------------------------------------------------------------
(* ScannerEngine.scan: src/scanner/engine.py *)

\* An optional float argument: None, a number, or (when a caller passes the
\* filter list positionally) a list.
None == [k |-> "none", v |-> Lit(0)]
Some(v) == [k |-> "num", v |-> v]
ListArg == [k |-> "list", v |-> Lit(0)]

Criteria(min_price, min_volume, min_relative_volume, min_adr, trend_template) ==
    [min_price |-> min_price, min_volume |-> min_volume,
     min_relative_volume |-> min_relative_volume, min_adr |-> min_adr,
     trend_template |-> trend_template]

\* scan(): every parameter at its default.
NoCriteria == Criteria(None, None, None, None, FALSE)

\* The criteria a call sets.
Active(kw) ==
    (IF kw.min_price.k = "none" THEN {} ELSE {"min_price"})
    \cup (IF kw.min_volume.k = "none" THEN {} ELSE {"min_volume"})
    \cup (IF kw.min_relative_volume.k = "none" THEN {} ELSE {"min_relative_volume"})
    \cup (IF kw.min_adr.k = "none" THEN {} ELSE {"min_adr"})
    \cup (IF kw.trend_template THEN {"trend_template"} ELSE {})

\* The window expressions scan adds with with_columns (three calls).
window_exprs(kw) ==
    { Expr(ColName("sma", SMA_FAST), "rolling_mean", "close", SMA_FAST, 0),
      Expr(ColName("sma", SMA_MID), "rolling_mean", "close", SMA_MID, 0),
      Expr(ColName("sma", SMA_SLOW), "rolling_mean", "close", SMA_SLOW, 0),
      Expr(ColName("avg_volume", DEFAULT_PERIOD), "rolling_mean", "volume", DEFAULT_PERIOD, 0),
      Expr(ColName("rvol", DEFAULT_PERIOD), "rvol", "volume", DEFAULT_PERIOD, 0) }
    \cup (IF kw.trend_template \/ kw.min_adr.k # "none"
          THEN { Expr(ColName("high", EXTREMA_PERIOD), "rolling_max", "high", EXTREMA_PERIOD, 0),
                 Expr(ColName("low", EXTREMA_PERIOD), "rolling_min", "low", EXTREMA_PERIOD, 0),
                 Expr(ColName("adr", DEFAULT_PERIOD), "rolling_mean", "daily_range_pct",
                      DEFAULT_PERIOD, 0) }
          ELSE {})
    \cup (IF kw.trend_template
          THEN { Expr(ColName("sma_200_1m_ago", 0), "rolling_mean", "close", SMA_SLOW,
                      SMA_SLOW_SHIFT) }
          ELSE {})

\* The screening criteria, applied one lf.filter after the other.
ScreenMinPrice(kw, rows) ==
    IF kw.min_price.k = "none" THEN rows
    ELSE { r \in rows :
             FilterKeeps(Ge(Col(r, "close"), kw.min_price.v)) }

ScreenMinVolume(kw, rows) ==
    IF kw.min_volume.k = "none" THEN rows
    ELSE { r \in rows :
             FilterKeeps(Ge(Col(r, "volume"), kw.min_volume.v)) }

ScreenMinRVol(kw, rows) ==
    IF kw.min_relative_volume.k = "none" THEN rows
    ELSE { r \in rows :
             FilterKeeps(Ge(Ind(r, ColName("rvol", DEFAULT_PERIOD)), kw.min_relative_volume.v)) }

ScreenMinAdr(kw, rows) ==
    IF kw.min_adr.k = "none" THEN rows
    ELSE { r \in rows :
             FilterKeeps(Ge(Ind(r, ColName("adr", DEFAULT_PERIOD)), kw.min_adr.v)) }

ScreenTrendTemplate(kw, rows) ==
    IF ~kw.trend_template THEN rows
    ELSE { r \in rows :
             FilterKeeps(TrendTemplate_pred(r)) }

\* Rows that meet any of the criteria (a faulty Screen).
Screen_either(kw, rows) ==
    IF Active(kw) = {} THEN rows
    ELSE UNION { (IF kw.min_price.k = "none" THEN {} ELSE ScreenMinPrice(kw, rows)),
                 (IF kw.min_volume.k = "none" THEN {} ELSE ScreenMinVolume(kw, rows)),
                 (IF kw.min_relative_volume.k = "none" THEN {} ELSE ScreenMinRVol(kw, rows)),
                 (IF kw.min_adr.k = "none" THEN {} ELSE ScreenMinAdr(kw, rows)),
                 (IF kw.trend_template THEN ScreenTrendTemplate(kw, rows) ELSE {}) }

Screen(kw, rows) ==
    ScreenTrendTemplate(kw,
        ScreenMinAdr(kw, ScreenMinRVol(kw, ScreenMinVolume(kw, ScreenMinPrice(kw, rows)))))

\* The releases of polars to tell apart for a call: how scan_parquet treats
\* a glob it cannot resolve matters only when there is such a glob.
Resolutions(st, readable) == IF readable /\ DOMAIN st # {} THEN {TRUE} ELSE BOOLEAN

Returned(rows) == [outcome |-> "ok", rows |-> rows]
Raised == [outcome |-> "raised", rows |-> {}]

\* The body of scan with its parameters bound to kw.  With no file to scan
\* (or a directory that cannot be read) polars fails either inside
\* scan_parquet (eager: the except clause returns an empty frame) or only
\* when the lazy plan is collected (the exception leaves scan); which one
\* depends on the polars release.  A list bound to min_price cannot be
\* compared with a column.
scan(st, readable, eager, kw) ==
    IF ~readable \/ DOMAIN st = {}
    THEN IF eager THEN Returned({}) ELSE Raised
    ELSE IF kw.min_price.k = "list" THEN Raised
    ELSE Returned(Screen(kw, GroupByLast(SortFrame(ScanParquet(st)), window_exprs(kw))))

\* How Python binds the arguments of the two ways the repository calls scan
\* with a filter list: scan(filters=[...]) names a parameter scan does not
\* have (TypeError before the body runs); scan(filters) binds the list to
\* the first parameter, min_price.
scan_filters(st, readable, eager, form, filters) ==
    IF form = "keyword" THEN Raised
    ELSE scan(st, readable, eager, Criteria(ListArg, None, None, None, FALSE))

-----------------------------------------------------------------------------
(* Inputs of the calls *)

FilterInputs ==
    { MinPriceFilter(Lit(1150)), MinVolumeFilter(Lit(1800)),
      MinRVolFilter(Num(15, 10), ShortPeriod), MinRVolFilter(Num(15, 10), DEFAULT_PERIOD),
      MinAdrFilter(Lit(350), ShortPeriod), MinAdrFilter(Lit(350), DEFAULT_PERIOD),
      GapUpFilter(Lit(5)), TrendTemplateFilter }

\* The lists the tests pass, and a list of one filter.
FilterLists ==
    { <<>>, <<MinPriceFilter(Lit(1150))>>,
      <<MinPriceFilter(Lit(1150)), GapUpFilter(Lit(5))>>,
      <<MinRVolFilter(Num(15, 10), DEFAULT_PERIOD), TrendTemplateFilter>> }

\* Lists of filters of different classes, as the scan command builds them
\* (cli.py appends at most one filter per option).
FilterChains ==
    { <<MinPriceFilter(Lit(1150)), GapUpFilter(Lit(5))>>,
      <<GapUpFilter(Lit(5)), MinVolumeFilter(Lit(1800))>>,
      <<MinVolumeFilter(Lit(1800)), MinRVolFilter(Num(15, 10), ShortPeriod)>>,
      <<TrendTemplateFilter, MinRVolFilter(Num(15, 10), DEFAULT_PERIOD)>>,
      <<MinAdrFilter(Lit(350), ShortPeriod), MinPriceFilter(Lit(1150)), GapUpFilter(Lit(5))>> }

AllCriteria ==
    { Criteria(p, v, r, a, t) :
        p \in {None, Some(Lit(1150))}, v \in {None, Some(Lit(1800))},
        r \in {None, Some(Num(15, 10))}, a \in {None, Some(Lit(350))}, t \in BOOLEAN }

CriteriaInputs == { kw \in AllCriteria : Cardinality(Active(kw)) <= MaxActive }

-----------------------------------------------------------------------------
(* The state machine.  One command runs at a time: a call is made when no   *)
(* call is pending (outcome = "none"), and its outcome and returned rows    *)
(* stay until the command ends.                                             *)

Call(op, filters, kw) ==
    [op |-> op, filters |-> filters, kw |-> kw, symbol |-> "", df |-> <<>>]

\* A call of the store: its symbol and, for a save, its series.
StoreCall(op, symbol, df) ==
    [op |-> op, filters |-> <<>>, kw |-> NoCriteria, symbol |-> symbol, df |-> df]

NoCall == Call("none", <<>>, NoCriteria)

\* No sync command is running; key tells whether TIINGO_API_KEY is set.
Idle(key) ==
    [cmd |-> "none", key |-> key, pc |-> "idle", tickers |-> <<>>, units |-> <<>>,
     exit |-> 0, eligible |-> 0, progress |-> 0]

Init ==
    /\ store = <<>>
    /\ dirOk \in BOOLEAN
    /\ call = NoCall
    /\ outcome = "none"
    /\ result = {}
    /\ job = Idle(TRUE)

\* store.save_ticker_data(symbol, df)
Save(symbol, df) ==
    /\ outcome = "none"
    /\ call' = StoreCall("save", symbol, df)
    /\ store' = IF dirOk THEN StoreAfterSave(store, symbol, df) ELSE store
    /\ outcome' = IF dirOk THEN "ok" ELSE "raised"
    /\ result' = {}
    /\ UNCHANGED <<dirOk, job>>

\* store.load_ticker_data(symbol): the series, or FileNotFoundError
Load(symbol) ==
    /\ outcome = "none"
    /\ call' = StoreCall("load", symbol, <<>>)
    /\ outcome' = IF load_ticker_data_found(store, symbol) THEN "ok" ELSE "not_found"
    /\ result' = IF load_ticker_data_found(store, symbol)
                 THEN {load_ticker_data(store, symbol)} ELSE {}
    /\ UNCHANGED <<store, dirOk, job>>

\* store.exists(symbol)
Exists(symbol) ==
    /\ outcome = "none"
    /\ call' = StoreCall("exists", symbol, <<>>)
    /\ outcome' = "ok"
    /\ result' = {exists(store, symbol)}
    /\ UNCHANGED <<store, dirOk, job>>

\* ScannerEngine.scan(filters=[...]) (the tests) and scan(filters) (the CLI)
ScanFilters(form, filters) ==
    /\ outcome = "none"
    /\ \E eager \in Resolutions(store, dirOk) :
        \E r \in {scan_filters(store, dirOk, eager, form, filters)} :
           /\ call' = Call(form, filters, NoCriteria)
           /\ outcome' = r.outcome
           /\ result' = r.rows
    /\ UNCHANGED <<store, dirOk, job>>

\* A scan that writes the latest row of every symbol back over its file (a
\* faulty ScanCriteria).
ScanCriteria_rewrites(kw) ==
    /\ outcome = "none"
    /\ \E eager \in Resolutions(store, dirOk) :
        \E r \in {scan(store, dirOk, eager, kw)} :
           /\ call' = Call("criteria", <<>>, kw)
           /\ outcome' = r.outcome
           /\ result' = r.rows
    /\ store' = [s \in DOMAIN store |-> <<store[s][Len(store[s])]>>]
    /\ UNCHANGED <<dirOk, job>>

\* ScannerEngine.scan(min_price=..., ...) through the signature it declares
ScanCriteria(kw) ==
    /\ outcome = "none"
    /\ \E eager \in Resolutions(store, dirOk) :
        \E r \in {scan(store, dirOk, eager, kw)} :
           /\ call' = Call("criteria", <<>>, kw)
           /\ outcome' = r.outcome
           /\ result' = r.rows
    /\ UNCHANGED <<store, dirOk, job>>

\* A filter object used as BaseFilter documents it
ApplyFilterObject(f) ==
    /\ outcome = "none"
    /\ call' = Call("filter", <<f>>, NoCriteria)
    /\ outcome' = "ok"
    /\ result' = ApplyFilter(store, f)
    /\ UNCHANGED <<store, dirOk, job>>

\* The filter objects of a list used one after the other
ApplyFilterChain(filters) ==
    /\ outcome = "none"
    /\ call' = Call("chain", filters, NoCriteria)
    /\ outcome' = "ok"
    /\ result' = ApplyFilters(store, filters)
    /\ UNCHANGED <<store, dirOk, job>>

\* The command ends; what it returned is dropped.
Finish ==
    /\ outcome # "none"
    /\ call' = NoCall
    /\ outcome' = "none"
    /\ result' = {}
    /\ UNCHANGED <<store, dirOk, job>>

Next ==
    \/ \E symbol \in SymbolInputs, df \in SeriesInputs : Save(symbol, df)
    \/ \E symbol \in SymbolInputs : Load(symbol)
    \/ \E symbol \in SymbolInputs : Exists(symbol)
    \/ \E form \in {"keyword", "positional"}, filters \in FilterLists : ScanFilters(form, filters)
    \/ \E kw \in CriteriaInputs : ScanCriteria(kw)
    \/ \E f \in FilterInputs : ApplyFilterObject(f)
    \/ \E filters \in FilterChains : ApplyFilterChain(filters)
    \/ Finish

Spec == Init /\ [][Next]_vars

-----------------------------------------------------------------------------
(* The trend template at the edges of its windows *)

\* Lengths on both sides of the shifted slow average and of the yearly
\* extrema.
TrendLens ==
    {SMA_SLOW + SMA_SLOW_SHIFT - 1, SMA_SLOW + SMA_SLOW_SHIFT, EXTREMA_PERIOD - 1}
    \cup EXTREMA_PERIOD..(EXTREMA_PERIOD + MaxSlack)

\* Rising series: with every window filled they meet the six comparisons.
TrendSeries == { TrendRows(n) : n \in TrendLens }

\* scan(trend_template=True), alone and with a price floor.
TrendCriteria == { Criteria(p, None, None, None, TRUE) : p \in {None, Some(Lit(1150))} }

InitTrend == Init /\ dirOk

NextTrend ==
    \/ \E symbol \in Symbols, df \in TrendSeries : Save(symbol, df)
    \/ \E kw \in TrendCriteria : ScanCriteria(kw)
    \/ ApplyFilterObject(TrendTemplateFilter)
    \/ Finish

SpecTrend == InitTrend /\ [][NextTrend]_vars

-----------------------------------------------------------------------------
(* The fetch client: src/api/tiingo.py *)

\* TiingoClient(): raises ValueError when no key is set.
TiingoClient(key) == IF key THEN "ok" ELSE "ValueError"

\* What fetch_daily_history hands back: nothing, or a frame.  A frame has the
\* OHLCV columns ("ohlcv") or other columns ("other").
Absent == [kind |-> "absent", rows |-> <<>>]

DataFrame(rows) == [kind |-> "ohlcv", rows |-> rows]

OtherFrame == [kind |-> "other", rows |-> <<[line |-> 1]>>]

is_empty(df) == Len(df.rows) = 0

\* A bar traded heavily enough to pass the dollar-volume threshold alone.
LiquidBar(date) == Bar(date, 1000, 1100, 950, 1050, 20000)

\* Two histories a fetch returns: one whose only heavy bar is older than the
\* lookback, one whose latest bar is heavy.
FetchedSeries ==
    { <<LiquidBar(1), FirstBar(100)>>, <<FirstBar(1), LiquidBar(2)>> }

\* What the remote end does with a request: the connection fails; it answers
\* with an error status; it answers 200 with an empty body, a body of white
\* space, a body read_csv cannot parse, a header line only, lines without
\* the price columns, or the CSV of a history.
Response(kind, rows) == [kind |-> kind, rows |-> rows]

Responses ==
    { Response(k, <<>>) :
        k \in {"transport_error", "http_error", "empty_body", "blank_body",
               "unparsable", "header_only", "other_columns"} }
    \cup { Response("csv", rows) : rows \in FetchedSeries }

\* The try block of fetch_daily_history: the value it returns, or the
\* exception it raises.
FetchReturn(value) == [exc |-> "none", value |-> value]

FetchRaise(exc) == [exc |-> exc, value |-> Absent]

fetch_try(resp) ==
    IF resp.kind = "transport_error" THEN FetchRaise("RequestException")
    ELSE IF resp.kind = "http_error" THEN FetchRaise("RequestException")
    ELSE IF resp.kind \in {"empty_body", "blank_body"} THEN FetchReturn(Absent)
    ELSE IF resp.kind = "unparsable" THEN FetchRaise("Exception")
    ELSE IF resp.kind = "header_only" THEN FetchReturn(DataFrame(<<>>))
    ELSE IF resp.kind = "other_columns" THEN FetchReturn(OtherFrame)
    ELSE FetchReturn(DataFrame(resp.rows))

\* A fetch that handles request errors only (a faulty fetch_daily_history).
fetch_daily_history_requests_only(resp) ==
    IF fetch_try(resp).exc = "RequestException" THEN FetchReturn(Absent)
    ELSE fetch_try(resp)

\* fetch_daily_history: both except clauses return None.
fetch_daily_history(resp) ==
    IF fetch_try(resp).exc \in {"RequestException", "Exception"} THEN FetchReturn(Absent)
    ELSE fetch_try(resp)

-----------------------------------------------------------------------------
(* sync and sync_all: src/cli.py *)

\* Dollars traded by a bar: close is in cents and volume in thousands.
Dollars(bar) == bar.close * bar.volume * 10

RECURSIVE SumDollars(_, _, _)
SumDollars(rows, start_date, i) ==
    IF i > Len(rows) THEN 0
    ELSE (IF rows[i].date >= start_date THEN Dollars(rows[i]) ELSE 0)
         + SumDollars(rows, start_date, i + 1)

\* _dollar_volume_last_2_months of a frame with the price columns
dollar_volume_last_2_months(df) ==
    IF is_empty(df) THEN 0
    ELSE LET end_date == Greatest({ df.rows[i].date : i \in 1..Len(df.rows) })
         IN  SumDollars(df.rows, end_date - LOOKBACK_DAYS, 1)

\* A unit of work: one call of _sync_one_ticker.  st is where it stands:
\* "waiting" (not started), "running" (started, nothing fetched yet),
\* "fetched" (holds the frame, nothing saved yet), "saving" (inside
\* save_ticker_data), "raced" (the same, and another unit has been writing
\* the same file meanwhile), "returned" (its tuple is ready) and "reported"
\* (the command has printed its line).  resp is the
\* answer its request got.
Unit(st, resp, df, success, msg, dollar_volume) ==
    [st |-> st, resp |-> resp, df |-> df, success |-> success, msg |-> msg,
     dollar_volume |-> dollar_volume]

NoResponse == Response("none", <<>>)

Waiting == Unit("waiting", NoResponse, Absent, FALSE, "", 0)

\* return symbol, success, message, dollar_volume
UnitReturn(resp, df, success, msg, dollar_volume) ==
    Unit("returned", resp, df, success, msg, dollar_volume)

\* _sync_one_ticker up to the return of the fetch.  A client without a key,
\* or a fetch that raises, ends in the except clause of the unit.
sync_one_ticker_fetch(key, resp) ==
    IF TiingoClient(key) # "ok" THEN UnitReturn(NoResponse, Absent, FALSE, "ValueError", 0)
    ELSE LET r == fetch_daily_history(resp)
         IN  IF r.exc # "none" THEN UnitReturn(resp, Absent, FALSE, r.exc, 0)
             ELSE IF r.value = Absent \/ is_empty(r.value)
                  THEN UnitReturn(resp, r.value, FALSE, "Failed to fetch or empty data", 0)
                  ELSE Unit("fetched", resp, r.value, FALSE, "", 0)

\* A unit that saves only a history that reaches the threshold (a faulty
\* sync_one_ticker_save).
sync_one_ticker_save_gated(resp, df, writable) ==
    IF df.kind # "ohlcv" THEN UnitReturn(resp, df, FALSE, "ColumnNotFoundError", 0)
    ELSE IF dollar_volume_last_2_months(df) < VOLUME_THRESHOLD
         THEN UnitReturn(resp, df, FALSE, "Below threshold", dollar_volume_last_2_months(df))
         ELSE IF ~writable THEN UnitReturn(resp, df, FALSE, "OSError", 0)
              ELSE UnitReturn(resp, df, TRUE, "Synced", dollar_volume_last_2_months(df))

\* _sync_one_ticker from there: the dollar volume (which raises on a frame
\* without the price columns), the save (which raises when the directory
\* cannot be written), and the tuple returned.
sync_one_ticker_save(resp, df, writable) ==
    IF df.kind # "ohlcv" THEN UnitReturn(resp, df, FALSE, "ColumnNotFoundError", 0)
    ELSE IF ~writable THEN UnitReturn(resp, df, FALSE, "OSError", 0)
    ELSE IF dollar_volume_last_2_months(df) >= VOLUME_THRESHOLD
         THEN UnitReturn(resp, df, TRUE, "Synced", dollar_volume_last_2_months(df))
         ELSE UnitReturn(resp, df, TRUE, "Synced (below threshold)",
                         dollar_volume_last_2_months(df))

\* The lists of symbols sync is given (already in upper case: sync
\* uppercases each argument before it calls the unit).
RECURSIVE Lists(_, _)
Lists(S, n) ==
    IF n = 0 THEN {<<>>}
    ELSE Lists(S, n - 1) \cup { Append(l, x) : l \in { m \in Lists(S, n - 1) : Len(m) = n - 1 }, x \in S }

TickerLists == Lists(Symbols, MaxTickers)

InFlight ==
    { i \in 1..Len(job.units) : job.units[i].st \in {"running", "fetched", "saving", "raced"} }

AllReported == \A i \in 1..Len(job.units) : job.units[i].st = "reported"

\* A command that leaves the key to the units (a faulty Begin).
Begin_unchecked(cmd, tickers) ==
    [job EXCEPT !.cmd = cmd, !.pc = "units", !.tickers = tickers,
                !.units = [i \in 1..Len(tickers) |-> Waiting]]

\* The command starts, given its symbols (the arguments of sync, the lines
\* of the ticker file for sync_all).  "Check API key early": without a key
\* it exits with code 1 and no unit exists.  sync_all returns at once on an
\* empty universe.
Begin(cmd, tickers) ==
    IF TiingoClient(job.key) # "ok"
    THEN [job EXCEPT !.cmd = cmd, !.pc = "done", !.exit = 1, !.tickers = tickers]
    ELSE IF cmd = "sync_all" /\ tickers = <<>>
         THEN [job EXCEPT !.cmd = cmd, !.pc = "done", !.exit = 0]
         ELSE [job EXCEPT !.cmd = cmd, !.pc = "units", !.tickers = tickers,
                          !.units = [i \in 1..Len(tickers) |-> Waiting]]

\* sync SYMBOL...
Sync(symbols) ==
    /\ job.pc = "idle"
    /\ job' = Begin("sync", symbols)
    /\ UNCHANGED <<store, dirOk, call, outcome, result>>

\* The ticker file: missing, or its lines (a symbol in either letter case,
\* a blank line, a comment).
UniverseLines == SymbolInputs \cup {"", "# watchlist"}

NoFile == [exists |-> FALSE, lines |-> <<>>]

UniverseFiles ==
    {NoFile} \cup { [exists |-> TRUE, lines |-> l] : l \in Lists(UniverseLines, MaxTickers) }

\* The loop of _load_ticker_universe over the lines: each is stripped and
\* upper-cased, blank lines and comments are skipped, every other line is
\* appended.
RECURSIVE universe_tickers(_)
universe_tickers(lines) ==
    IF lines = <<>> THEN <<>>
    ELSE (IF Head(lines) \in {"", "# watchlist"} THEN <<>> ELSE <<Upper(Head(lines))>>)
         \o universe_tickers(Tail(lines))

\* _load_ticker_universe: no tickers when the file is missing
load_ticker_universe(file) ==
    IF ~file.exists THEN <<>> ELSE universe_tickers(file.lines)

\* sync-all, over the universe the ticker file gives
SyncAll(file) ==
    /\ job.pc = "idle"
    /\ job' = Begin("sync_all", load_ticker_universe(file))
    /\ UNCHANGED <<store, dirOk, call, outcome, result>>

\* A loop that goes on to the next symbol only after a success, and a pool
\* that takes a new unit only while none has failed (a faulty UnitStart).
UnitStart_after_success(i) ==
    /\ job.pc = "units"
    /\ i \in 1..Len(job.units)
    /\ job.units[i].st = "waiting"
    /\ \A j \in 1..Len(job.units) :
          job.units[j].st \in {"returned", "reported"} => job.units[j].success
    /\ IF job.cmd = "sync"
       THEN \A j \in 1..(i - 1) : job.units[j].st = "reported"
       ELSE Cardinality(InFlight) < MAX_WORKERS
    /\ job' = [job EXCEPT !.units[i].st = "running"]
    /\ UNCHANGED <<store, dirOk, call, outcome, result>>

\* A unit starts: in sync, the next symbol of the loop once the one before
\* it has been reported; in sync_all, any submitted unit while a worker of
\* the pool is free.
UnitStart(i) ==
    /\ job.pc = "units"
    /\ i \in 1..Len(job.units)
    /\ job.units[i].st = "waiting"
    /\ IF job.cmd = "sync"
       THEN \A j \in 1..(i - 1) : job.units[j].st = "reported"
       ELSE Cardinality(InFlight) < MAX_WORKERS
    /\ job' = [job EXCEPT !.units[i].st = "running"]
    /\ UNCHANGED <<store, dirOk, call, outcome, result>>

\* The unit builds its client and fetches; the remote end answers as it will.
UnitFetch(i, resp) ==
    /\ job.pc = "units"
    /\ i \in 1..Len(job.units)
    /\ job.units[i].st = "running"
    /\ job' = [job EXCEPT !.units[i] = sync_one_ticker_fetch(job.key, resp)]
    /\ UNCHANGED <<store, dirOk, call, outcome, result>>

\* What a symbol's file holds when two writes of it overlapped and it is
\* not the frame of the last writer: no series that any fetch returned
\* (write_parquet truncates the file and writes it in place, so the file
\* can be a mixture of the two frames, or unreadable).
Torn == <<Bar(0, 0, 0, 0, 0, 0)>>

\* The units that are inside save_ticker_data, and those whose write has
\* overlapped with another write of the same file.
Saving == {"saving", "raced"}

\* The other units of the command whose symbol has the same file.
SamePath(i) ==
    { j \in 1..Len(job.units) :
        j # i /\ get_file_path(job.tickers[j]) = get_file_path(job.tickers[i]) }

\* The unit computes the dollar volume and enters save_ticker_data; either
\* can raise, and then the unit returns.  A write that begins while another
\* unit is writing the same file overlaps with it.
UnitSave(i) ==
    /\ job.pc = "units"
    /\ i \in 1..Len(job.units)
    /\ job.units[i].st = "fetched"
    /\ \E u \in {sync_one_ticker_save(job.units[i].resp, job.units[i].df, dirOk)} :
          IF ~u.success
          THEN job' = [job EXCEPT !.units[i] = u]
          ELSE \E racing \in {{ j \in SamePath(i) : job.units[j].st \in Saving }} :
                  job' = [job EXCEPT !.units =
                             [j \in 1..Len(job.units) |->
                                 IF j = i
                                 THEN [@[j] EXCEPT !.st = IF racing = {} THEN "saving"
                                                          ELSE "raced"]
                                 ELSE IF j \in racing
                                      THEN [@[j] EXCEPT !.st = "raced"]
                                      ELSE @[j]]]
    /\ UNCHANGED <<store, dirOk, call, outcome, result>>

\* save_ticker_data returns and the unit returns its tuple.  The file then
\* holds the unit's frame, unless the write overlapped with another write
\* of the same file: then it holds this frame or no frame at all.
UnitSaved(i) ==
    /\ job.pc = "units"
    /\ i \in 1..Len(job.units)
    /\ job.units[i].st \in Saving
    /\ job' = [job EXCEPT !.units[i] =
                  sync_one_ticker_save(job.units[i].resp, job.units[i].df, dirOk)]
    /\ store' \in { StoreAfterSave(store, job.tickers[i], rows) :
                      rows \in {job.units[i].df.rows}
                               \cup (IF job.units[i].st = "raced" THEN {Torn} ELSE {}) }
    /\ UNCHANGED <<dirOk, call, outcome, result>>

\* A collector that counts every success as eligible (a faulty Collect).
Collect_counts_successes(i) ==
    /\ job.pc = "units"
    /\ i \in 1..Len(job.units)
    /\ job.units[i].st = "returned"
    /\ job' = [job EXCEPT
                 !.units[i] = Unit("reported", NoResponse, Absent, @.success, @.msg,
                                   @.dollar_volume),
                 !.progress = @ + 1,
                 !.eligible = IF job.cmd = "sync_all" /\ job.units[i].success
                              THEN @ + 1 ELSE @]
    /\ UNCHANGED <<store, dirOk, call, outcome, result>>

\* The command takes the tuple of a unit that has returned (success,
\* message, dollar volume; the frame is gone with the unit), prints its
\* line and advances the progress bar; sync_all, in the thread that
\* iterates as_completed, also counts it as eligible when it succeeded with
\* a dollar volume at or above the threshold (sync ignores the dollar
\* volume).
Collect(i) ==
    /\ job.pc = "units"
    /\ i \in 1..Len(job.units)
    /\ job.units[i].st = "returned"
    /\ job' = [job EXCEPT
                 !.units[i] = Unit("reported", NoResponse, Absent, @.success, @.msg,
                                   @.dollar_volume),
                 !.progress = @ + 1,
                 !.eligible = IF job.cmd = "sync_all" /\ job.units[i].success
                                 /\ job.units[i].dollar_volume >= VOLUME_THRESHOLD
                              THEN @ + 1 ELSE @]
    /\ UNCHANGED <<store, dirOk, call, outcome, result>>

\* Every unit has been reported: the command ends with exit code 0.
SyncEnd ==
    /\ job.pc = "units"
    /\ AllReported
    /\ job' = [job EXCEPT !.pc = "done", !.exit = 0]
    /\ UNCHANGED <<store, dirOk, call, outcome, result>>

\* One command is run, from a store that holds an older history of one
\* symbol; the key may be missing and the directory may have become
\* unwritable.
InitSync ==
    /\ store = [s \in {"AAA"} |-> <<FirstBar(1)>>]
    /\ dirOk \in BOOLEAN
    /\ call = NoCall
    /\ outcome = "none"
    /\ result = {}
    /\ job \in { Idle(key) : key \in BOOLEAN }

NextSync ==
    \/ \E symbols \in TickerLists : Sync(symbols)
    \/ \E file \in UniverseFiles : SyncAll(file)
    \/ \E i \in 1..MaxTickers : UnitStart(i)
    \/ \E i \in 1..MaxTickers, resp \in Responses : UnitFetch(i, resp)
    \/ \E i \in 1..MaxTickers : UnitSave(i)
    \/ \E i \in 1..MaxTickers : UnitSaved(i)
    \/ \E i \in 1..MaxTickers : Collect(i)
    \/ SyncEnd

\* The steps a command takes by itself once it has started its units.
CommandStep ==
    \/ \E i \in 1..MaxTickers : UnitStart(i)
    \/ \E i \in 1..MaxTickers, resp \in Responses : UnitFetch(i, resp)
    \/ \E i \in 1..MaxTickers : UnitSave(i)
    \/ \E i \in 1..MaxTickers : UnitSaved(i)
    \/ \E i \in 1..MaxTickers : Collect(i)
    \/ SyncEnd

\* The loop of sync goes on to the next symbol, and the pool of sync_all
\* runs every unit submitted to it: a step the command can take is taken.
\* Nothing obliges anyone to start a command.
SpecSync == InitSync /\ [][NextSync]_vars /\ WF_vars(CommandStep)

-----------------------------------------------------------------------------
(* The scan command's options and recipe: src/cli.py, src/scanner/recipe.py *)

FloatOptions == {"min_price", "min_volume", "min_relative_volume", "min_adr", "gap_up"}

Options == FloatOptions \cup {"trend_template", "sort"}

\* Python's None
PyNone == "None"

\* The default typer gives a parameter whose option is not on the command
\* line.
Default(option) ==
    IF option \in FloatOptions THEN PyNone
    ELSE IF option = "trend_template" THEN "False" ELSE "symbol"

\* What the command line can say for an option (--trend-template and
\* --no-trend-template for the flag), apart from not naming it.
ArgValues(option) ==
    IF option \in FloatOptions THEN {"5"}
    ELSE IF option = "trend_template" THEN {"True", "False"} ELSE {"symbol", "close"}

\* What a recipe file can hold under the option's key, apart from not having
\* the key (a float key may hold null).
RecipeValues(option) ==
    IF option \in FloatOptions THEN {"10", PyNone}
    ELSE IF option = "trend_template" THEN {"True", "False"} ELSE {"symbol", "volume"}

\* The parameter the function body sees.
Param(argv, option) == IF option \in DOMAIN argv THEN argv[option] ELSE Default(option)

\* Step 2 of scan, "Merge Configs", for one option.
merge_option(option, param, loaded_config) ==
    IF option \in FloatOptions
    THEN IF param = PyNone /\ option \in DOMAIN loaded_config
         THEN loaded_config[option] ELSE param
    ELSE IF option = "trend_template"
         THEN IF param = "False" /\ option \in DOMAIN loaded_config
                 /\ loaded_config[option] = "True"
              THEN "True" ELSE param
         ELSE IF param = "symbol" /\ option \in DOMAIN loaded_config
              THEN loaded_config[option] ELSE param

\* The values of the options after the merge.
merge(argv, loaded_config) ==
    [option \in Options |-> merge_option(option, Param(argv, option), loaded_config)]

\* Command lines and recipes that name at most MaxNamed options between
\* them: argv gives the options on the command line, loaded_config the keys
\* of the recipe ({} without --recipe or when the file cannot be read).
NamedSets == { T \in SUBSET Options : Cardinality(T) <= MaxNamed }

ArgSettings ==
    UNION { { f \in [S -> UNION { ArgValues(o) : o \in S }] :
                \A o \in S : f[o] \in ArgValues(o) } : S \in NamedSets }

RecipeSettings ==
    UNION { { f \in [S -> UNION { RecipeValues(o) : o \in S }] :
                \A o \in S : f[o] \in RecipeValues(o) } : S \in NamedSets }

MergeInputs ==
    { io \in ArgSettings \X RecipeSettings :
        Cardinality(DOMAIN io[1] \cup DOMAIN io[2]) <= MaxNamed }

\* scan [OPTIONS] [--recipe FILE], up to the merged options
ScanCommand(argv, loaded_config) ==
    /\ outcome = "none"
    /\ call' = [op |-> "scan_command", argv |-> argv, loaded_config |-> loaded_config]
    /\ outcome' = "ok"
    /\ result' = {merge(argv, loaded_config)}
    /\ UNCHANGED <<store, dirOk, job>>

InitMerge == Init /\ dirOk

NextMerge ==
    \/ \E io \in MergeInputs : ScanCommand(io[1], io[2])
    \/ Finish

SpecMerge == InitMerge /\ [][NextMerge]_vars

-----------------------------------------------------------------------------
(* Plotter._process_data: src/visualization/plotter.py *)

\* An interval of group_by_dynamic: its length in days and the day number
\* (days since 1970-01-01, a Thursday) its windows are aligned to: daily
\* windows on the epoch, weekly windows on Mondays.
Every(name) ==
    CASE name = "1d" -> [days |-> 1, origin |-> 0]
      [] name = "3d" -> [days |-> 3, origin |-> 0]
      [] name = "1w" -> [days |-> 7, origin |-> 4]

Intervals == {"1d", "3d", "1w"}

\* _calculate_start_date: the days a period string stands for.
PeriodDays(period) ==
    CASE period = "2d" -> 2
      [] period = "1w" -> 7

Periods == {PyNone, "2d", "1w"}

\* Step 1: filter by period
FilterByPeriod(rows, period) ==
    IF period = PyNone THEN rows
    ELSE LET end_date == Greatest({ rows[i].date : i \in 1..Len(rows) })
         IN  SelectSeq(rows, LAMBDA r : r.date >= end_date - PeriodDays(period))

\* The lower bound of the window a date falls in.
WindowStart(date, every) == date - ((date - every.origin) % every.days)

\* A bucket aggregated with the close of its first bar (a faulty Aggregate).
Aggregate_first_close(rows, start) ==
    Bar(start, rows[1].open, MaxRange(rows, "high", 1, Len(rows)),
        MinRange(rows, "low", 1, Len(rows)), rows[1].close,
        SumRange(rows, "volume", 1, Len(rows)))

\* agg([open.first(), high.max(), low.min(), close.last(), volume.sum()])
\* over the rows of one window, in frame order.
Aggregate(rows, start) ==
    Bar(start, rows[1].open, MaxRange(rows, "high", 1, Len(rows)),
        MinRange(rows, "low", 1, Len(rows)), rows[Len(rows)].close,
        SumRange(rows, "volume", 1, Len(rows)))

\* Step 2: df.sort("date").group_by_dynamic("date", every=resample).agg(...):
\* one row per window that has rows, labelled with the window's lower bound.
group_by_dynamic(rows, every) ==
    LET sorted == SortByDate(rows)
        starts == { WindowStart(sorted[i].date, every) : i \in 1..Len(sorted) }
    IN  { Aggregate(SelectSeq(sorted, LAMBDA r : WindowStart(r.date, every) = w), w)
            : w \in starts }

\* _process_data: the bars handed to the chart (step 3 sorts them by time;
\* they are kept here as the set of rows).
process_data(df, resample, period) ==
    group_by_dynamic(FilterByPeriod(df, period), Every(resample))

\* Histories to chart: up to MaxBars bars on different days of PlotDays, each
\* shaped like the first or the second bar of the tests' fixtures, stored in
\* date order or latest first.
PlotDays == 2..6

PlotBar(date, shape) == IF shape = 1 THEN FirstBar(date) ELSE GapBar(date)

PlotSeries ==
    UNION { UNION { { [i \in 1..n |-> PlotBar(days[i], shapes[i])],
                      Reverse([i \in 1..n |-> PlotBar(days[i], shapes[i])]) }
                      : days \in { d \in [1..n -> PlotDays] :
                                     \A i \in 1..(n - 1) : d[i] < d[i + 1] },
                        shapes \in [1..n -> {1, 2}] }
              : n \in 1..MaxBars }

\* plotter._process_data(df, resample, period)
ProcessData(df, resample, period) ==
    /\ outcome = "none"
    /\ call' = [op |-> "process_data", df |-> df, resample |-> resample, period |-> period]
    /\ outcome' = "ok"
    /\ result' = process_data(df, resample, period)
    /\ UNCHANGED <<store, dirOk, job>>

InitPlot == Init /\ dirOk

NextPlot ==
    \/ \E df \in PlotSeries, resample \in Intervals, period \in Periods :
          ProcessData(df, resample, period)
    \/ Finish

SpecPlot == InitPlot /\ [][NextPlot]_vars

-----------------------------------------------------------------------------
(* cli.py: the plot command *)

\* The stores the command is run against: each symbol has no file, a file
\* of one bar or a file of two.
PlotStores ==
    UNION { [S -> {<<FirstBar(1)>>, <<FirstBar(1), GapBar(2)>>}] : S \in SUBSET Symbols }

\* ticker_data before the loop, and the tickers reported as having no data.
NoTickerData == [ticker_data |-> <<>>, reports |-> <<>>]

\* An iteration that passes an empty history on for a ticker that has no
\* file (a faulty plot_load_step).
plot_load_step_keeps(st, acc, ticker) ==
    [acc EXCEPT !.ticker_data =
        Append(@, <<Upper(ticker),
                    IF load_ticker_data_found(st, Upper(ticker))
                    THEN load_ticker_data(st, Upper(ticker)) ELSE <<>> >>)]

\* One iteration of the loading loop: the ticker is upper-cased and loaded;
\* FileNotFoundError is caught, reported and the ticker skipped.
plot_load_step(st, acc, ticker) ==
    IF load_ticker_data_found(st, Upper(ticker))
    THEN [acc EXCEPT !.ticker_data =
              Append(@, <<Upper(ticker), load_ticker_data(st, Upper(ticker))>>)]
    ELSE [acc EXCEPT !.reports = Append(@, Upper(ticker))]

\* The loading loop over the first n tickers.
RECURSIVE plot_load(_, _, _)
plot_load(st, tickers, n) ==
    IF n = 0 THEN NoTickerData
    ELSE plot_load_step(st, plot_load(st, tickers, n - 1), tickers[n])

\* plot_candle: returns at once on an empty list; otherwise it builds the
\* chart window and shows it, which succeeds or raises (shows).
plot_candle(ticker_data, shows) ==
    IF ticker_data = <<>> \/ shows THEN "return" ELSE "raise"

\* What the command leaves behind: the list handed to the plotter, the
\* tickers reported as skipped, what became of the plotter call and the
\* last message printed.
PlotResult(acc, plotter, msg) ==
    [ticker_data |-> acc.ticker_data, reports |-> acc.reports,
     plotter |-> plotter, msg |-> msg]

\* `plot tickers`: exits with code 1 when no ticker is given, when none of
\* them could be loaded, and when the plotter raises.
Plot(tickers, shows) ==
    /\ outcome = "none"
    /\ call' = [op |-> "plot", tickers |-> tickers]
    /\ IF tickers = <<>>
       THEN /\ outcome' = "exit_1"
            /\ result' = {PlotResult(NoTickerData, "not_called",
                                     "Please provide at least one ticker.")}
       ELSE \E acc \in {plot_load(store, tickers, Len(tickers))} :
               IF acc.ticker_data = <<>>
               THEN /\ outcome' = "exit_1"
                    /\ result' = {PlotResult(acc, "not_called",
                                             "No valid data loaded for any provided tickers.")}
               ELSE IF plot_candle(acc.ticker_data, shows) = "return"
                    THEN /\ outcome' = "ok"
                         /\ result' = {PlotResult(acc, "return", "Plotting")}
                    ELSE /\ outcome' = "exit_1"
                         /\ result' = {PlotResult(acc, "raise", "Error plotting")}
    /\ UNCHANGED <<store, dirOk, job>>

InitPlotCommand ==
    /\ store \in PlotStores
    /\ dirOk = TRUE
    /\ call = NoCall
    /\ outcome = "none"
    /\ result = {}
    /\ job = Idle(TRUE)

NextPlotCommand ==
    \/ \E tickers \in Lists(SymbolInputs, MaxTickers), shows \in BOOLEAN : Plot(tickers, shows)
    \/ Finish

SpecPlotCommand == InitPlotCommand /\ [][NextPlotCommand]_vars

-----------------------------------------------------------------------------
(* What the claims speak of, stated from a symbol's series alone *)

RefGreatest(S) == CHOOSE x \in S : \A y \in S : y <= x

RefLeast(S) == CHOOSE x \in S : \A y \in S : x <= y

RefSymbols(rows) == { r.symbol : r \in rows }

RefBars(series) == { series[i] : i \in 1..Len(series) }

\* The series in date order (its dates are distinct).
RefChron(series) ==
    IF \A i \in 1..(Len(series) - 1) : series[i].date < series[i + 1].date
    THEN series
    ELSE [k \in 1..Len(series) |->
            CHOOSE b \in RefBars(series) :
                Cardinality({ c \in RefBars(series) : c.date <= b.date }) = k]


RECURSIVE RefMaxDate(_, _, _)
RefMaxDate(series, lo, hi) ==
    IF lo = hi THEN series[lo].date
    ELSE RefGreatest({ RefMaxDate(series, lo, (lo + hi) \div 2),
                       RefMaxDate(series, (lo + hi) \div 2 + 1, hi) })

\* The bar of the latest date.
RefLatest(series) == RefChron(series)[Len(series)]

RECURSIVE RefSum(_, _, _, _)
RefSum(s, field, lo, hi) ==
    IF lo > hi THEN 0
    ELSE IF lo = hi THEN s[lo][field]
    ELSE LET m == (lo + hi) \div 2
         IN RefSum(s, field, lo, m) + RefSum(s, field, m + 1, hi)

\* Sum of a field over the k bars that end `back` bars before the latest.
RefSumLast(series, field, k, back) ==
    RefSum(RefChron(series), field, Len(series) - back - k + 1, Len(series) - back)

RECURSIVE RefMax(_, _, _, _)
RefMax(s, field, lo, hi) ==
    IF lo = hi THEN s[lo][field]
    ELSE RefGreatest({ RefMax(s, field, lo, (lo + hi) \div 2),
                       RefMax(s, field, (lo + hi) \div 2 + 1, hi) })

RECURSIVE RefMin(_, _, _, _)
RefMin(s, field, lo, hi) ==
    IF lo = hi THEN s[lo][field]
    ELSE RefLeast({ RefMin(s, field, lo, (lo + hi) \div 2),
                    RefMin(s, field, (lo + hi) \div 2 + 1, hi) })

RefMinPrice(series, cents) == RefLatest(series).close >= cents

RefMinVolume(series, volume) == RefLatest(series).volume >= volume

\* volume / mean(last `period` volumes) >= num / den, for a positive mean
RefMinRVol(series, num, den, period) ==
    /\ Len(series) >= period
    /\ RefLatest(series).volume * period * den >= num * RefSumLast(series, "volume", period, 0)

\* open > high of the bar before the latest * (1 + pct / 100)
RefGapUp(series, pct) ==
    /\ Len(series) >= 2
    /\ RefLatest(series).open * 100 > RefChron(series)[Len(series) - 1].high * (100 + pct)

RefTrendTemplate(series) ==
    /\ Len(series) >= EXTREMA_PERIOD
    /\ LET s == RefChron(series)
           n == Len(series)
           close == s[n].close
           sum50 == RefSumLast(series, "close", SMA_FAST, 0)
           sum150 == RefSumLast(series, "close", SMA_MID, 0)
           sum200 == RefSumLast(series, "close", SMA_SLOW, 0)
           sum200ago == RefSumLast(series, "close", SMA_SLOW, SMA_SLOW_SHIFT)
       IN /\ close * SMA_FAST > sum50
          /\ sum50 * SMA_MID > sum150 * SMA_FAST
          /\ sum150 * SMA_SLOW > sum200 * SMA_MID
          /\ sum200 > sum200ago
          /\ close * 100 > 125 * RefMin(s, "low", n - EXTREMA_PERIOD + 1, n)
          /\ close * 100 > 75 * RefMax(s, "high", n - EXTREMA_PERIOD + 1, n)

\* Whether the latest row of a series satisfies a filter's predicate.
RefPasses(f, series) ==
    CASE f.type = "MinPrice" -> RefMinPrice(series, f.value.n)
      [] f.type = "MinVolume" -> RefMinVolume(series, f.value.n)
      [] f.type = "MinRVol" -> RefMinRVol(series, f.value.n, f.value.d, f.period)
      [] f.type = "GapUp" -> RefGapUp(series, f.value.n)
      [] f.type = "TrendTemplate" -> RefTrendTemplate(series)
      [] OTHER -> FALSE

ListCall == call.op \in {"keyword", "positional"}

-----------------------------------------------------------------------------
(* C1 *)

\* C1: a scan called with a list of Filter objects, scan(filters=[...]) or
\* scan(filters), over a store that holds symbols returns exactly the latest
\* row of every symbol whose latest row satisfies every filter of the list
\* (of every symbol, for the empty list).
C1_ListScanReturnsMatches ==
    (ListCall /\ outcome # "none" /\ DOMAIN store # {}) =>
        /\ outcome = "ok"
        /\ RefSymbols(result) =
               { s \in DOMAIN store :
                   \A k \in 1..Len(call.filters) : RefPasses(call.filters[k], store[s]) }
        /\ \A r \in result : r.date = RefMaxDate(store[r.symbol], 1, Len(store[r.symbol]))

-----------------------------------------------------------------------------
(* C2 *)

-----------------------------------------------------------------------------
(* C3 *)

\* The store that holds one symbol of st and nothing else.
RefAlone(st, s) == [x \in {s} |-> st[s]]

\* The pending call made again, on another store.
RefSameCall(st) ==
    IF call.op = "criteria" THEN scan(st, TRUE, TRUE, call.kw).rows
    ELSE ApplyFilter(st, call.filters[1])

\* The mean of a field over the last `period` bars of a series; null when
\* the series has fewer bars.
RefMean(series, field, period) ==
    IF Len(series) < period THEN Null
    ELSE Num(RefSumLast(series, field, period, 0), period)

RefSameValue(a, b) ==
    IF IsNull(a) \/ IsNull(b) THEN IsNull(a) /\ IsNull(b)
    ELSE Ge(a, b) = "T" /\ Ge(b, a) = "T"

\* C3: every windowed indicator of a row is computed from the rows of that
\* row's symbol only.  What a scan or a filter returns over a store is the
\* union of what it returns over each symbol stored alone (rows compared
\* with all their indicator columns), and the rolling means on a returned
\* row are the means of its own symbol's last bars, null when that symbol
\* has fewer bars than the window whatever the other symbol holds.
C3_PerSymbolIsolation ==
    (call.op \in {"criteria", "filter"} /\ outcome = "ok") =>
        /\ result = UNION { RefSameCall(RefAlone(store, s)) : s \in DOMAIN store }
        /\ call.op = "criteria" =>
             \A r \in result :
                /\ RefSameValue(r.cols[ColName("sma", SMA_FAST)],
                                RefMean(store[r.symbol], "close", SMA_FAST))
                /\ RefSameValue(r.cols[ColName("sma", SMA_SLOW)],
                                RefMean(store[r.symbol], "close", SMA_SLOW))
                /\ RefSameValue(r.cols[ColName("avg_volume", DEFAULT_PERIOD)],
                                RefMean(store[r.symbol], "volume", DEFAULT_PERIOD))

\* A symbol with fewer bars than the volume window, sorted after a symbol
\* that fills the window, has been scanned: its row is returned with a null
\* average volume next to the other symbol's row with a computed one.
C3_Witness ==
    /\ call.op = "criteria" /\ call.kw = NoCriteria /\ outcome = "ok"
    /\ DOMAIN store = {"AAA", "BBB"}
    /\ Len(store["AAA"]) >= SMA_SLOW
    /\ Len(store["BBB"]) < DEFAULT_PERIOD
    /\ \E r \in result :
          r.symbol = "BBB" /\ IsNull(r.cols[ColName("avg_volume", DEFAULT_PERIOD)])
    /\ \E r \in result :
          r.symbol = "AAA" /\ ~IsNull(r.cols[ColName("sma", SMA_SLOW)])

-----------------------------------------------------------------------------
(* C4 *)

\* k1 asks for some of the criteria of kw, with the same thresholds.
RefSubCriteria(k1, kw) ==
    /\ k1.min_price \in {None, kw.min_price}
    /\ k1.min_volume \in {None, kw.min_volume}
    /\ k1.min_relative_volume \in {None, kw.min_relative_volume}
    /\ k1.min_adr \in {None, kw.min_adr}
    /\ k1.trend_template => kw.trend_template

-----------------------------------------------------------------------------
(* C5 *)

\* The number of bars a filter's indicator needs before it is defined.
RefWindow(f) ==
    CASE f.type \in {"MinRVol", "MinAdr"} -> f.period
      [] f.type = "GapUp" -> 2
      [] f.type = "TrendTemplate" -> EXTREMA_PERIOD
      [] OTHER -> 1

RefShort(n) == { s \in DOMAIN store : Len(store[s]) < n }

-----------------------------------------------------------------------------
(* C6 *)

\* C6: a scan of a data directory that holds no parquet file, or that cannot
\* be read, returns an empty result and does not raise, whatever filters or
\* criteria it is called with.
C6_EmptyUniverseNeverRaises ==
    (/\ call.op \in {"criteria", "keyword", "positional"}
     /\ outcome # "none"
     /\ (DOMAIN store = {} \/ ~dirOk)) =>
        outcome = "ok" /\ result = {}

-----------------------------------------------------------------------------
(* C7 *)

RefFilterCall(type) == call.op = "filter" /\ call.filters[1].type = type

-----------------------------------------------------------------------------
(* C8 *)

RefOnlyCriterion(name) == call.op = "criteria" /\ Active(call.kw) = {name}

-----------------------------------------------------------------------------
(* C9 *)

\* The ratio volume / mean is a number: the window is filled and its mean
\* volume is positive.  (A window of zero volumes is another claim's case.)
RefRatioDefined(series, period) ==
    Len(series) < period \/ RefSumLast(series, "volume", period, 0) > 0

-----------------------------------------------------------------------------
(* C10 *)

-----------------------------------------------------------------------------
(* C11 *)

\* The symbols whose last `period` volumes are all 0.
RefZeroMean(period) ==
    { s \in DOMAIN store :
        Len(store[s]) >= period /\ RefSumLast(store[s], "volume", period, 0) = 0 }

\* C11: a symbol whose mean volume over its last `period` bars is zero has
\* no defined relative volume and does not match: it is never among the
\* rows returned by MinRVolFilter(min_rvol, period), nor by a scan whose
\* criteria include min_relative_volume, whatever the threshold.
C11_ZeroMeanNeverMatches ==
    /\ (RefFilterCall("MinRVol") /\ outcome = "ok") =>
          RefSymbols(result) \cap RefZeroMean(call.filters[1].period) = {}
    /\ (call.op = "criteria" /\ outcome = "ok" /\ call.kw.min_relative_volume # None) =>
          RefSymbols(result) \cap RefZeroMean(DEFAULT_PERIOD) = {}

-----------------------------------------------------------------------------
(* C12 *)

\* The orders in which the filters of a list can be given.
RefPermutations(filters) ==
    { [i \in 1..Len(filters) |-> filters[p[i]]] :
        p \in { q \in [1..Len(filters) -> 1..Len(filters)] :
                  \A i, j \in 1..Len(filters) : q[i] = q[j] => i = j } }

-----------------------------------------------------------------------------
(* C13 *)

\* The calls that scan: the engine's scan in its three forms, and filter
\* objects applied to the engine's frame.
RefScanOps == {"keyword", "positional", "criteria", "filter", "chain"}

\* The same call made again on the current store ends as the pending call
\* did and returns the rows it returned.
RefSameAgain ==
    CASE call.op = "criteria" ->
           \E eager \in Resolutions(store, dirOk) :
               scan(store, dirOk, eager, call.kw) = [outcome |-> outcome, rows |-> result]
      [] call.op \in {"keyword", "positional"} ->
           \E eager \in Resolutions(store, dirOk) :
               scan_filters(store, dirOk, eager, call.op, call.filters)
                 = [outcome |-> outcome, rows |-> result]
      [] call.op = "filter" -> ApplyFilter(store, call.filters[1]) = result
      [] call.op = "chain" -> ApplyFilters(store, call.filters) = result
      [] OTHER -> TRUE

-----------------------------------------------------------------------------
(* C14 *)

\* C14: save is an idempotent overwrite. A save that succeeds leaves the
\* symbol's file holding exactly the series saved (none of the older
\* content), leaves every other symbol's file as it was, and saving the same
\* series again would leave the store as it is; no call but save changes
\* the store, and a load returns exactly what the symbol's file holds, so
\* that load returns the series most recently saved for the symbol. Symbols
\* that differ only in case name the same file and count as one symbol.
C14_SaveOverwrites ==
    [][ /\ (call'.op = "save" /\ outcome' = "ok") =>
              /\ load_ticker_data_found(store', call'.symbol)
              /\ load_ticker_data(store', call'.symbol) = call'.df
              /\ \A t \in SymbolInputs :
                    Upper(t) # Upper(call'.symbol) =>
                        /\ load_ticker_data_found(store', t) = load_ticker_data_found(store, t)
                        /\ load_ticker_data_found(store, t) =>
                              load_ticker_data(store', t) = load_ticker_data(store, t)
              /\ StoreAfterSave(store', call'.symbol, call'.df) = store'
        /\ (call'.op # "save" \/ outcome' # "ok") => store' = store
        /\ (call'.op = "load" /\ outcome' = "ok") =>
              result' = {load_ticker_data(store, call'.symbol)} ]_vars

\* A load by the lower-case spelling of a symbol has returned a series of
\* more than one bar from a store that holds another symbol's file too.
C14_Witness ==
    /\ call.op = "load" /\ outcome = "ok"
    /\ DOMAIN store = Symbols
    /\ call.symbol = "aaa"
    /\ \E df \in result : Len(df) > 1

-----------------------------------------------------------------------------
(* C15 *)

\* No file of the store is the symbol's.
RefAbsent(st, symbol) == \A name \in DOMAIN st : name # Upper(symbol)

\* C15: a load for a symbol that has no file (none was ever saved for it)
\* fails with NotFound, and a load changes nothing in the store either way;
\* once a save for the symbol has succeeded a load of it succeeds; exists
\* changes nothing and answers true exactly when a load of the symbol would
\* succeed.
C15_LoadNotFound ==
    [][ /\ call'.op = "load" =>
              /\ store' = store
              /\ outcome' = IF RefAbsent(store, call'.symbol) THEN "not_found" ELSE "ok"
        /\ (call'.op = "save" /\ outcome' = "ok") =>
              load_ticker_data_found(store', call'.symbol)
        /\ call'.op = "exists" =>
              /\ store' = store
              /\ outcome' = "ok"
              /\ result' = {load_ticker_data_found(store, call'.symbol)} ]_vars

\* A load has failed with NotFound in a store that holds another symbol's
\* file.
C15_Witness ==
    /\ call.op = "load" /\ outcome = "not_found"
    /\ store # <<>>
    /\ result = {}

-----------------------------------------------------------------------------
(* C16 *)

\* The units whose fetch has come back.
RefFetched ==
    { i \in 1..Len(job.units) :
        job.units[i].st \in {"fetched", "returned"}
        /\ job.units[i].resp # NoResponse }

\* The answers that are a success status with a body that is not blank and
\* that read_csv can parse.
RefBodyKinds == {"header_only", "other_columns", "csv"}

\* C16: fetch_daily_history never raises to its caller. Whatever the remote
\* end did, no exception of the fetch reaches the unit of work that called
\* it; after a transport error, an error status, an empty or blank body or a
\* body that cannot be parsed the unit holds no frame (None); it holds a
\* frame only after a success status with a body, and then the frame has
\* the rows of that body.
C16_FetchNeverRaises ==
    \A i \in RefFetched :
        LET u == job.units[i]
        IN  /\ u.msg \notin {"RequestException", "Exception"}
            /\ (u.resp.kind \notin RefBodyKinds) => u.df = Absent
            /\ (u.resp.kind \in RefBodyKinds) => (u.df # Absent /\ u.df.kind # "absent")
            /\ (u.resp.kind = "csv") => u.df = DataFrame(u.resp.rows)

\* One unit of a command has come back from a body that cannot be parsed
\* and another from the CSV of a history.
C16_Witness ==
    /\ \E i \in RefFetched : job.units[i].resp.kind = "unparsable"
    /\ \E i \in RefFetched : job.units[i].resp.kind = "csv" /\ job.units[i].df.rows # <<>>

-----------------------------------------------------------------------------
(* C17 *)

\* The units that hold the tuple they returned.
RefReturned == { i \in 1..Len(job.units) : job.units[i].st = "returned" }

RefReported == { i \in 1..Len(job.units) : job.units[i].st = "reported" }

\* The unit's fetch returned a series with at least one bar.
RefGotSeries(u) == u.df.kind = "ohlcv" /\ Len(u.df.rows) > 0

RefUnitsSound ==
    /\ job.progress = Cardinality(RefReported)
    /\ \A i \in RefReturned :
          LET u == job.units[i]
          IN  /\ RefGotSeries(u) => (u.success <=> dirOk)
              /\ (RefGotSeries(u) /\ ~u.success) => u.msg = "OSError"
              /\ ~RefGotSeries(u) => ~u.success
    /\ \A i \in RefReturned \cup RefReported :
          job.units[i].success => job.tickers[i] \in DOMAIN store
    /\ (job.pc = "done" /\ job.key) =>
          /\ job.exit = 0
          /\ RefReported = 1..Len(job.tickers)

-----------------------------------------------------------------------------
(* C18 *)

\* The store as it was before the first command.
RefStoreBefore == [s \in {"AAA"} |-> <<FirstBar(1)>>]

\* C18: a missing API key is fatal. When the key is not set, sync and
\* sync_all end at once with exit code 1: no unit of work exists, so no
\* symbol is fetched or saved, and the store is as it was.
C18_MissingKeyAborts ==
    (~job.key /\ job.cmd # "none") =>
        /\ job.pc = "done"
        /\ job.exit = 1
        /\ job.units = <<>>
        /\ job.progress = 0
        /\ store = RefStoreBefore

\* Without a key, a sync over two symbols has ended with exit code 1, in a
\* directory that could have been written.
C18_Witness ==
    /\ ~job.key /\ job.cmd = "sync" /\ job.pc = "done" /\ job.exit = 1
    /\ Len(job.tickers) = 2
    /\ dirOk

-----------------------------------------------------------------------------
(* C19 *)

\* The value the precedence rule gives an option: the argument if the
\* command line has one, else the recipe's value if the recipe has the key,
\* else the default.
RefEffective(option) ==
    IF option \in DOMAIN call.argv THEN call.argv[option]
    ELSE IF option \in DOMAIN call.loaded_config THEN call.loaded_config[option]
    ELSE Default(option)

\* C19: when the scan command merges the command line with a loaded
\* recipe, every option (min_price, min_volume, min_relative_volume,
\* min_adr, gap_up, trend_template, sort) ends with the explicit argument
\* if one was given, otherwise the recipe's value if it has one, otherwise
\* the default; an argument that was given is never replaced by the
\* recipe's value.
C19_ExplicitArgumentWins ==
    (call.op = "scan_command" /\ outcome = "ok") =>
        \A merged \in result : \A option \in Options : merged[option] = RefEffective(option)

-----------------------------------------------------------------------------
(* C20 *)

\* The bars that are resampled: those of the call within its period.
RefPlotted ==
    LET latest == RefGreatest({ call.df[i].date : i \in 1..Len(call.df) })
    IN  { call.df[i] : i \in { j \in 1..Len(call.df) :
              call.period = PyNone
              \/ call.df[j].date >= latest - PeriodDays(call.period) } }

\* The bars of the window that starts on day w.
RefBucket(w) ==
    { b \in RefPlotted : w <= b.date /\ b.date < w + Every(call.resample).days }

\* The days on which windows start, around the days of the model.
RefWindowStarts ==
    { w \in -7..7 : \E k \in -3..7 : w = Every(call.resample).origin + k * Every(call.resample).days }

RECURSIVE RefTotal(_)
RefTotal(bars) ==
    IF bars = {} THEN 0
    ELSE LET b == CHOOSE x \in bars : TRUE IN b.volume + RefTotal(bars \ {b})

RefWellFormed(b) == b.low <= b.open /\ b.open <= b.high /\ b.low <= b.close /\ b.close <= b.high

\* C20: resampling turns each interval of a history's bars, taken in date
\* order, into one bar: open of the interval's first bar, highest high,
\* lowest low, close of its last bar, sum of the volumes. Every bar falls in
\* exactly one interval (there is one output bar for every interval that has
\* bars and none for the others), so the total volume is kept, and the
\* output bars have low <= open, close <= high when the input bars do.
C20_ResampleAggregates ==
    (call.op = "process_data" /\ outcome = "ok") =>
        /\ \A w \in RefWindowStarts :
              LET bucket == RefBucket(w)
                  out == { o \in result : o.date = w }
              IN  IF bucket = {} THEN out = {}
                  ELSE /\ Cardinality(out) = 1
                       /\ \A o \in out :
                             /\ \E b \in bucket :
                                   o.open = b.open /\ \A c \in bucket : b.date <= c.date
                             /\ \E b \in bucket :
                                   o.close = b.close /\ \A c \in bucket : c.date <= b.date
                             /\ o.high = RefGreatest({ b.high : b \in bucket })
                             /\ o.low = RefLeast({ b.low : b \in bucket })
                             /\ o.volume = RefTotal(bucket)
        /\ \A b \in RefPlotted : Cardinality({ w \in RefWindowStarts : b \in RefBucket(w) }) = 1
        /\ \A o \in result : o.date \in RefWindowStarts
        /\ RefTotal(result) = RefTotal(RefPlotted)
        /\ (\A b \in RefPlotted : RefWellFormed(b)) => \A o \in result : RefWellFormed(o)

\* A history of three bars stored latest first was resampled by week into
\* two bars, one of them made of two bars of which the earlier has the
\* higher close and the higher high.
C20_Witness ==
    /\ call.op = "process_data" /\ outcome = "ok"
    /\ call.resample = "1w" /\ Len(call.df) = 3
    /\ call.df[1].date > call.df[2].date
    /\ Cardinality(result) = 2
    /\ \E w \in RefWindowStarts :
          /\ Cardinality(RefBucket(w)) = 2
          /\ \E b, c \in RefBucket(w) : b.date < c.date /\ b.close > c.close /\ b.high > c.high

\* The positions of the tickers of a plot command that have a stored
\* series, and the position a ticker takes among those of a set.
RefPresentAt == { i \in 1..Len(call.tickers) : ~RefAbsent(store, call.tickers[i]) }

RefAbsentAt == { i \in 1..Len(call.tickers) : RefAbsent(store, call.tickers[i]) }

RefRank(S, i) == Cardinality({ j \in S : j <= i })

\* C21: the plot command skips and reports. Every ticker with no stored
\* series is reported and left out, every ticker with a stored series is
\* handed to the plotter with that series, both in the order given; the
\* plotter is called exactly when some ticker has a stored series, and the
\* command exits with code 1 without calling the plotter exactly when none
\* has.
C21_PlotSkipsAbsent ==
    call.op = "plot" =>
        \A r \in result :
            /\ Len(r.ticker_data) = Cardinality(RefPresentAt)
            /\ \A i \in RefPresentAt :
                  r.ticker_data[RefRank(RefPresentAt, i)]
                      = <<Upper(call.tickers[i]), store[Upper(call.tickers[i])]>>
            /\ Len(r.reports) = Cardinality(RefAbsentAt)
            /\ \A i \in RefAbsentAt :
                  r.reports[RefRank(RefAbsentAt, i)] = Upper(call.tickers[i])
            /\ (outcome = "exit_1" /\ r.plotter = "not_called") <=> (RefPresentAt = {})
            /\ (RefPresentAt # {}) => (r.plotter # "not_called")
            /\ (outcome = "ok") <=> (r.plotter = "return")

\* A plot of two tickers of which the first has no stored series and the
\* second, given in lower case, has one: the chart was shown with one
\* history and one ticker was reported.
C21_Witness ==
    /\ call.op = "plot" /\ outcome = "ok"
    /\ call.tickers = <<"BBB", "aaa">>
    /\ RefAbsent(store, "BBB") /\ ~RefAbsent(store, "aaa")
    /\ \A r \in result : Len(r.ticker_data) = 1 /\ r.reports = <<"BBB">>

\* The units of the command whose tuple was a success with a 2-month dollar
\* volume at or above the threshold.
RefEligible ==
    { i \in 1..Len(job.units) :
        /\ job.units[i].success
        /\ job.units[i].dollar_volume >= VOLUME_THRESHOLD }

\* C22: sync_all has one unit of work per ticker of the universe and never
\* more than MAX_WORKERS of them in flight; whatever the order in which the
\* units run and complete, the eligible count is at every moment the number
\* of reported units that returned success with a dollar volume at or above
\* VOLUME_THRESHOLD and the progress is the number of reported units, so
\* when the command has ended the count is the number of such units and
\* the progress is the number of tickers.
C22_EligibleCountExact ==
    job.cmd = "sync_all" =>
        /\ job.pc = "units" => Len(job.units) = Len(job.tickers)
        /\ Cardinality(InFlight) <= MAX_WORKERS
        /\ job.eligible = Cardinality({ i \in RefEligible : job.units[i].st = "reported" })
        /\ job.progress = Cardinality({ i \in 1..Len(job.units) : job.units[i].st = "reported" })
        /\ (job.pc = "done" /\ job.units # <<>>) =>
              /\ Len(job.units) = Len(job.tickers)
              /\ job.eligible = Cardinality(RefEligible)
              /\ job.progress = Len(job.tickers)

\* sync_all has ended over two tickers: one unit succeeded at or above the
\* threshold, the other succeeded below it; the count is one and the
\* progress two.
C22_Witness ==
    /\ job.cmd = "sync_all" /\ job.pc = "done" /\ Len(job.units) = 2
    /\ \E i, j \in 1..2 :
          /\ job.units[i].success /\ job.units[i].dollar_volume >= VOLUME_THRESHOLD
          /\ job.units[j].success /\ job.units[j].dollar_volume < VOLUME_THRESHOLD
    /\ job.eligible = 1 /\ job.progress = 2

\* C23: during sync_all no two units that are in flight at the same time
\* write the same symbol's file: whenever a unit is inside
\* save_ticker_data, no other unit of the command whose symbol has the same
\* file is inside it too, whatever the universe lists.
C23_ConcurrentSavesDistinct ==
    job.cmd = "sync_all" =>
        \A i \in 1..Len(job.units) :
            job.units[i].st \in Saving =>
                \A j \in SamePath(i) : job.units[j].st \notin Saving

\* The unit's fetch returned absent (None) or a frame with no rows.
RefNoData(u) == u.df.kind = "absent" \/ u.df.rows = <<>>

\* C24, its first part: a unit whose fetch returns absent or an empty
\* series returns failure in the same step and the store is as it was; and
\* no step other than the return of save_ticker_data changes the store.
C24_FailedFetchWritesNothing ==
    [][ /\ \A i \in 1..Len(job.units) :
              (/\ job.units[i].st = "running"
               /\ job'.units[i].st # "running"
               /\ RefNoData(job'.units[i]))
              => (/\ job'.units[i].st = "returned"
                  /\ ~job'.units[i].success
                  /\ store' = store)
        /\ (store' # store) =>
              \E i \in 1..Len(job.units) :
                  /\ job.units[i].st \in Saving
                  /\ RefGotSeries(job.units[i])
                  /\ job'.units[i].success ]_vars

\* C24: after any sequence of syncs every stored series is a non-empty
\* series that some fetch returned (or the series stored before the first
\* command): no file holds anything else.
C24_StoredSeriesWereFetched ==
    \A s \in DOMAIN store :
        \/ store[s] \in FetchedSeries
        \/ s \in DOMAIN RefStoreBefore /\ store[s] = RefStoreBefore[s]

\* The positions of the bars of a history dated within LOOKBACK_DAYS of its
\* latest bar, and the dollars traded by the bars at a set of positions.
RefRecent(rows) ==
    { i \in 1..Len(rows) :
        \A j \in 1..Len(rows) : rows[j].date - rows[i].date <= LOOKBACK_DAYS }

RECURSIVE RefDollarSum(_, _)
RefDollarSum(rows, at) ==
    IF at = {} THEN 0
    ELSE LET i == CHOOSE x \in at : TRUE
         IN  rows[i].close * rows[i].volume * 10 + RefDollarSum(rows, at \ {i})

\* C25 as stated: every symbol whose fetch returned a non-empty series is
\* saved and reported as success, whatever its dollar volume.
C25_NonEmptyFetchAlwaysStored ==
    \A i \in RefReturned :
        RefGotSeries(job.units[i]) =>
            /\ job.units[i].success
            /\ get_file_path(job.tickers[i]) \in DOMAIN store

\* C25 (amended): the threshold never gates storage. A unit whose fetch
\* returned a non-empty price series writes the symbol's file and returns
\* success exactly when the save did not raise, whether or not its dollar
\* volume (the sum of close * volume over the bars dated within
\* LOOKBACK_DAYS of its latest bar) reaches VOLUME_THRESHOLD, so the file of
\* a below-threshold symbol is there for the next scan; the threshold
\* decides only the message and whether sync_all counts the unit as
\* eligible.
C25_ThresholdOnlyLabels ==
    /\ \A i \in RefReturned :
          LET u == job.units[i]
          IN  RefGotSeries(u) =>
                 /\ u.success <=> dirOk
                 /\ u.success =>
                       /\ get_file_path(job.tickers[i]) \in DOMAIN store
                       /\ u.dollar_volume = RefDollarSum(u.df.rows, RefRecent(u.df.rows))
                       /\ (u.dollar_volume >= VOLUME_THRESHOLD) <=> (u.msg = "Synced")
                       /\ (u.dollar_volume < VOLUME_THRESHOLD)
                             <=> (u.msg = "Synced (below threshold)")
    /\ \A i \in RefReported :
          job.units[i].success => get_file_path(job.tickers[i]) \in DOMAIN store
    /\ job.eligible <= Cardinality({ i \in RefReported : job.units[i].msg = "Synced" })

\* A unit has returned success below the threshold for a history whose
\* bars, taken all together, would have reached it: the heavy bar is older
\* than the lookback.  The symbol had no file before and has one now.
C25_Witness ==
    \E i \in RefReturned :
        LET u == job.units[i]
        IN  /\ u.success /\ u.msg = "Synced (below threshold)"
            /\ u.dollar_volume < VOLUME_THRESHOLD
            /\ RefDollarSum(u.df.rows, 1..Len(u.df.rows)) >= VOLUME_THRESHOLD
            /\ job.tickers[i] \notin DOMAIN RefStoreBefore
            /\ job.tickers[i] \in DOMAIN store

\* A call of the trend template: the filter object, or a scan with
\* trend_template set.
RefTrendCall ==
    RefFilterCall("TrendTemplate") \/ (call.op = "criteria" /\ call.kw.trend_template)

\* The latest row of every stored symbol with the indicator columns the
\* call computes, before any row is filtered out.
RefTrendFrame ==
    IF DOMAIN store = {} THEN {}
    ELSE GroupByLast(SortFrame(ScanParquet(store)),
                     IF call.op = "filter" THEN required_indicators(call.filters[1])
                     ELSE window_exprs(call.kw))

\* C26: a symbol with fewer than 252 bars never passes the trend template,
\* whatever its prices: on its latest row high_252 and low_252 are null
\* exactly when it has fewer than 252 bars, and the slow average of 20 rows
\* earlier is null exactly when it has fewer than 220; a row with a null
\* indicator is not kept; and the rising series, which is kept from 252
\* bars on, is left out with 251.  (Stated for a data directory that holds
\* at least one symbol.)
C26_TrendTemplateNeedsFullYear ==
    (RefTrendCall /\ DOMAIN store # {}) =>
        /\ outcome = "ok"
        /\ RefSymbols(result) \cap RefShort(EXTREMA_PERIOD) = {}
        /\ \A r \in RefTrendFrame :
              LET n == Len(store[r.symbol])
              IN  /\ IsNull(r.cols[ColName("high", EXTREMA_PERIOD)]) <=> (n < EXTREMA_PERIOD)
                  /\ IsNull(r.cols[ColName("low", EXTREMA_PERIOD)]) <=> (n < EXTREMA_PERIOD)
                  /\ IsNull(r.cols[ColName("sma_200_1m_ago", 0)])
                        <=> (n < SMA_SLOW + SMA_SLOW_SHIFT)
                  /\ (\E nm \in DOMAIN r.cols : IsNull(r.cols[nm]))
                        => ~FilterKeeps(TrendTemplate_pred(r))
                  /\ (store[r.symbol] = TrendRows(n))
                        => ((r.symbol \in RefSymbols(result)) <=> (n >= EXTREMA_PERIOD))

\* The trend template was applied to a store where one symbol has the
\* rising series of 251 bars and the other the same series one bar longer:
\* only the second is returned.
C26_Witness ==
    /\ RefTrendCall /\ outcome = "ok"
    /\ DOMAIN store = {"AAA", "BBB"}
    /\ store["AAA"] = TrendRows(EXTREMA_PERIOD - 1)
    /\ store["BBB"] = TrendRows(EXTREMA_PERIOD)
    /\ RefSymbols(result) = {"BBB"}

=============================================================================
